---- MODULE Spec2Model ----
(***************************************************************************)
(* Model of the marketing dashboard's four client views (weekly, region,  *)
(* demographic, device): the fetch lifecycle of each view (loading, error, *)
(* data), the reductions each view runs on every render pass, and the     *)
(* BubbleMap widget of the region view.                                    *)
(*                                                                         *)
(* Numbers.  JavaScript numbers are modelled as exact rationals            *)
(* [n |-> numerator, d |-> denominator], d > 0 in lowest terms, with       *)
(* Infinity = 1/0, -Infinity = -1/0 and NaN = 0/0, the values IEEE         *)
(* division by zero produces.  Binary rounding error of doubles is not     *)
(* modelled.  Metrics that the code only ever adds (weekly and regional    *)
(* entries, rounded apportioned counts) are plain integers.                *)
(*                                                                         *)
(* Strings.  Region and country names are sequences of tokens so that the  *)
(* template string `${region}-${country}` is a real concatenation.  A      *)
(* week_start string is the record of its date fields and its textual     *)
(* suffix, so that two spellings of one instant are different strings.     *)
(*                                                                         *)
(* Optional values.  A React state that is `T | null` is a sequence of     *)
(* length at most one: <<>> is null, <<x>> is the value x.                 *)
(*                                                                         *)
(* State.  loading, error and data are the values last given to the three  *)
(* state setters; rendered is what the view has on screen; mounted tells   *)
(* whether the view is still in the tree.  pc is the position of the       *)
(* effect's async function.  Four history variables record what happened:  *)
(* outcome (the branch the function took), fetches (how many fetches the   *)
(* view has started), fetched (the document as the fetch returned it) and  *)
(* lateSetters (the state setters were called after the view was removed). *)
(***************************************************************************)
EXTENDS Integers, Sequences, FiniteSets, TLC

VARIABLES view, pc, loading, error, data, outcome, rendered,
          mounted, fetches, fetched, lateSetters

vars == <<view, pc, loading, error, data, outcome, rendered,
          mounted, fetches, fetched, lateSetters>>

(***************************************************************************)
(* Bounds of the model.                                                    *)
(***************************************************************************)
MaxCampaigns == 2
MaxEntries == 2

(***************************************************************************)
(* JavaScript numbers.                                                     *)
(***************************************************************************)
Abs(x) == IF x < 0 THEN -x ELSE x

RECURSIVE Gcd(_, _)
Gcd(a, b) == IF b = 0 THEN a ELSE Gcd(b, a % b)

Sign(x) == IF x > 0 THEN 1 ELSE IF x < 0 THEN -1 ELSE 0

\* n/d as a number: d = 0 gives Infinity, -Infinity or NaN by the sign of n.
Num(n, d) ==
  IF d = 0 THEN [n |-> Sign(n), d |-> 0]
  ELSE LET g == Gcd(Abs(n), Abs(d))
           s == IF d < 0 THEN -1 ELSE 1
       IN  [n |-> (s * n) \div g, d |-> (s * d) \div g]

Int2Num(i) == [n |-> i, d |-> 1]
Infinity == [n |-> 1, d |-> 0]
NaN == [n |-> 0, d |-> 0]
Zero == Int2Num(0)

IsFinite(x) == x.d # 0
IsNaN(x) == x.d = 0 /\ x.n = 0

\* x * y, x / y and x + y on finite operands (x / 0 is the IEEE result).
NumMul(x, y) == Num(x.n * y.n, x.d * y.d)
NumDiv(x, y) == Num(x.n * y.d, x.d * y.n)
NumAdd(x, y) == Num(x.n * y.d + y.n * x.d, x.d * y.d)
NumSub(x, y) == Num(x.n * y.d - y.n * x.d, x.d * y.d)
NumLess(x, y) == x.n * y.d < y.n * x.d

\* Math.round of a finite number: the nearest integer, a tie going up.
MathRound(x) == (2 * x.n + x.d) \div (2 * x.d)

\* Math.floor of a finite number.
MathFloor(x) == x.n \div x.d

\* parseFloat(x.toFixed(2)): x to the nearest hundredth, the larger one on a
\* tie; Infinity and NaN print as "Infinity" and "NaN" and parse back.
ToFixed2(x) ==
  IF x.d = 0 THEN x
  ELSE Num((200 * x.n + x.d) \div (2 * x.d), 100)

(***************************************************************************)
(* Optional values.                                                        *)
(***************************************************************************)
Null == <<>>
Some(x) == <<x>>
IsNull(o) == o = <<>>

(***************************************************************************)
(* Finite maps in insertion order: a JavaScript Map is a sequence of       *)
(* <<key, value>> pairs; set() on a key that is present keeps its place.   *)
(***************************************************************************)
MapHas(m, k) == \E i \in 1..Len(m) : m[i][1] = k

MapGet(m, k) == m[CHOOSE i \in 1..Len(m) : m[i][1] = k][2]

\* A set() that moves an updated key to the end of the iteration order.
MapSet_MovesToEnd(m, k, v) ==
  SelectSeq(m, LAMBDA e : e[1] # k) \o << <<k, v>> >>

MapSet(m, k, v) ==
  IF MapHas(m, k)
  THEN [i \in 1..Len(m) |-> IF m[i][1] = k THEN <<k, v>> ELSE m[i]]
  ELSE Append(m, <<k, v>>)

\* Array.from(map.values())
MapValues(m) == [i \in 1..Len(m) |-> m[i][2]]

\* Array.from(map.entries())
MapEntries(m) == m

(***************************************************************************)
(* Array.prototype.sort with a comparator a.key - b.key: a stable sort.    *)
(* keys[i] is the sort key of s[i].                                        *)
(***************************************************************************)
InsertIndex(sorted, i, keys) ==
  LET p == Cardinality({j \in 1..Len(sorted) : keys[sorted[j]] <= keys[i]})
  IN  SubSeq(sorted, 1, p) \o <<i>> \o SubSeq(sorted, p + 1, Len(sorted))

RECURSIVE SortedIndices(_, _)
SortedIndices(n, keys) ==
  IF n = 0 THEN <<>> ELSE InsertIndex(SortedIndices(n - 1, keys), n, keys)

StableSort(s, keys) ==
  LET idx == SortedIndices(Len(s), keys) IN [i \in 1..Len(s) |-> s[idx[i]]]

(***************************************************************************)
(* Date strings.  new Date(s).getTime() for an ISO date string, date-only  *)
(* ("2024-01-08") or with the midnight UTC time ("2024-01-08T00:00:00.000Z"):*)
(* both denote the same instant.                                           *)
(***************************************************************************)
DateString(y, m, d, t) == [y |-> y, m |-> m, d |-> d, t |-> t]

DaysFromCivil(y, m, d) ==
  LET yy == IF m <= 2 THEN y - 1 ELSE y
      era == yy \div 400
      yoe == yy - era * 400
      mp == IF m > 2 THEN m - 3 ELSE m + 9
      doy == (153 * mp + 2) \div 5 + d - 1
      doe == yoe * 365 + yoe \div 4 - yoe \div 100 + doy
  IN  era * 146097 + doe - 719468

\* getTime() counted in days since the epoch (every date here is a midnight
\* UTC; milliseconds do not fit TLC's 32-bit integers).
DateGetTime(s) == DaysFromCivil(s.y, s.m, s.d)

(***************************************************************************)
(* The documents the API may answer with.                                  *)
(***************************************************************************)
Views == {"weekly", "region", "demographic", "device"}

\* The breakdown collection each view reduces.
FieldOf(v) ==
  CASE v = "weekly" -> "weekly_performance"
    [] v = "region" -> "regional_performance"
    [] v = "demographic" -> "demographic_breakdown"
    [] v = "device" -> "device_breakdown"

\* Campaign totals: a large campaign, and a tiny one whose apportioned
\* counts round to 0 or 1 (more clicks than impressions).
Totals ==
  { [impressions |-> 1000, clicks |-> 100, conversions |-> 10,
     spend |-> 200, revenue |-> 400],
    [impressions |-> 1, clicks |-> 3, conversions |-> 1,
     spend |-> 1, revenue |-> 2] }

WeeklyEntry(w, t) ==
  [week_start |-> w, impressions |-> t.impressions, clicks |-> t.clicks,
   conversions |-> t.conversions, spend |-> t.spend, revenue |-> t.revenue]

\* Two weeks, the second one in both spellings and with two sets of numbers.
WeeklyEntries ==
  { WeeklyEntry(DateString(2024, 1, 1, ""), [impressions |-> 1000, clicks |-> 100,
                  conversions |-> 10, spend |-> 200, revenue |-> 400]),
    WeeklyEntry(DateString(2024, 1, 8, ""), [impressions |-> 1000, clicks |-> 100,
                  conversions |-> 10, spend |-> 200, revenue |-> 400]),
    WeeklyEntry(DateString(2024, 1, 8, ""), [impressions |-> 1, clicks |-> 3,
                  conversions |-> 1, spend |-> 1, revenue |-> 2]),
    WeeklyEntry(DateString(2024, 1, 8, "T00:00:00.000Z"), [impressions |-> 1,
                  clicks |-> 3, conversions |-> 1, spend |-> 1, revenue |-> 2]) }

\* A one-token string.
Str(s) == <<s>>

\* Regional entries as the API computes them: the rates agree with the
\* entry's own counts.
RegionalMetrics ==
  [ A |-> [impressions |-> 100, clicks |-> 10, conversions |-> 2,
           spend |-> 20, revenue |-> 40,
           ctr |-> Int2Num(10), conversion_rate |-> Int2Num(20),
           cpc |-> Int2Num(2), cpa |-> Int2Num(10), roas |-> Int2Num(2)],
    B |-> [impressions |-> 200, clicks |-> 10, conversions |-> 1,
           spend |-> 40, revenue |-> 120,
           ctr |-> Int2Num(5), conversion_rate |-> Int2Num(10),
           cpc |-> Int2Num(4), cpa |-> Int2Num(40), roas |-> Int2Num(3)],
    C |-> [impressions |-> 300, clicks |-> 30, conversions |-> 2,
           spend |-> 30, revenue |-> 60,
           ctr |-> Int2Num(10), conversion_rate |-> Num(20, 3),
           cpc |-> Int2Num(1), cpa |-> Int2Num(15), roas |-> Int2Num(2)] ]

RegionalEntry(region, country, m) ==
  [region |-> region, country |-> country,
   impressions |-> m.impressions, clicks |-> m.clicks,
   conversions |-> m.conversions, spend |-> m.spend, revenue |-> m.revenue,
   ctr |-> m.ctr, conversion_rate |-> m.conversion_rate,
   cpc |-> m.cpc, cpa |-> m.cpa, roas |-> m.roas]

\* A city of the coordinate table with two entries of different rates, the
\* same city name in another country, a second city, a name of a member of
\* Object.prototype, and two region/country pairs outside the table that
\* differ but spell the same "region-country".
RegionalEntries ==
  { RegionalEntry(Str("Dubai"), Str("UAE"), RegionalMetrics.A),
    RegionalEntry(Str("Dubai"), Str("UAE"), RegionalMetrics.B),
    RegionalEntry(Str("Dubai"), Str("Oman"), RegionalMetrics.A),
    RegionalEntry(Str("Doha"), Str("Qatar"), RegionalMetrics.C),
    RegionalEntry(Str("constructor"), Str("Nowhere"), RegionalMetrics.B),
    RegionalEntry(<<"Al", "-", "Ain">>, <<"UAE">>, RegionalMetrics.A),
    RegionalEntry(<<"Al">>, <<"Ain", "-", "UAE">>, RegionalMetrics.B) }

DemographicEntry(a, g, p) ==
  [age_group |-> a, gender |-> g, percentage_of_audience |-> Int2Num(p)]

DemographicEntries ==
  { DemographicEntry("18-24", "Male", 50),
    DemographicEntry("18-24", "Male", 40),
    DemographicEntry("25-34", "Male", 50),
    DemographicEntry("18-24", "Female", 50),
    DemographicEntry("25-34", "Female", 40),
    DemographicEntry("18-24", "Other", 50) }

DeviceEntry(t, p) == [device_type |-> t, percentage_of_audience |-> Int2Num(p)]

DeviceEntries ==
  { DeviceEntry("Mobile", 50), DeviceEntry("Mobile", 40),
    DeviceEntry("Desktop", 50), DeviceEntry("Tablet", 40) }

Campaign(i, t, field, entries, missing) ==
  [ name |-> i,
    impressions |-> t.impressions, clicks |-> t.clicks,
    conversions |-> t.conversions, spend |-> t.spend, revenue |-> t.revenue,
    weekly_performance |-> IF field = "weekly_performance" THEN entries ELSE <<>>,
    regional_performance |-> IF field = "regional_performance" THEN entries ELSE <<>>,
    demographic_breakdown |-> IF field = "demographic_breakdown" THEN entries ELSE <<>>,
    device_breakdown |-> IF field = "device_breakdown" THEN entries ELSE <<>>,
    absent |-> IF missing THEN {field} ELSE {} ]

SeqsUpTo(S, k) == UNION {[1..m -> S] : m \in 0..k}

\* The ways to cut a sequence of length len into n consecutive slices.
Cuts(n, len) ==
  {c \in [0..n -> 0..len] :
      /\ c[0] = 0
      /\ c[n] = len
      /\ \A i \in 1..n : c[i - 1] <= c[i]}

\* The document of n campaigns with totals t[i] that carry the entries es
\* of `field`, cut at c; campaign a (if any) lacks the collection altogether.
Document(field, n, es, c, t, a) ==
  [hasCampaigns |-> TRUE,
   campaigns |-> [i \in 1..n |->
      Campaign(i, t[i], field, SubSeq(es, c[i - 1] + 1, c[i]), a = i)]]

\* The last campaign, when it has no entry, may lack the collection.
MayLack(n, c) == {i \in {n} : i >= 1 /\ c[i - 1] = c[i]}

\* A JSON document without a campaigns array.
NoCampaignsDoc == [hasCampaigns |-> FALSE, campaigns |-> <<>>]

(***************************************************************************)
(* Weekly view: getAggregatedWeeklyData.                                   *)
(***************************************************************************)
\* One step of the inner forEach: fold `week` into weeklyMap.
\* A fold step that replaces the bucket by the entry instead of adding to it.
WeeklyFoldEntry_Replaces(weeklyMap, week) == MapSet(weeklyMap, week.week_start, week)

WeeklyFoldEntry(weeklyMap, week) ==
  LET key == week.week_start IN
  IF MapHas(weeklyMap, key)
  THEN LET existing == MapGet(weeklyMap, key) IN
       MapSet(weeklyMap, key,
              [existing EXCEPT
                 !.impressions = existing.impressions + week.impressions,
                 !.clicks = existing.clicks + week.clicks,
                 !.conversions = existing.conversions + week.conversions,
                 !.spend = existing.spend + week.spend,
                 !.revenue = existing.revenue + week.revenue])
  ELSE MapSet(weeklyMap, key, week)

RECURSIVE WeeklyFoldEntries(_, _, _)
WeeklyFoldEntries(weeklyMap, entries, i) ==
  IF i > Len(entries) THEN weeklyMap
  ELSE WeeklyFoldEntries(WeeklyFoldEntry(weeklyMap, entries[i]), entries, i + 1)

RECURSIVE WeeklyFoldCampaigns(_, _, _)
WeeklyFoldCampaigns(weeklyMap, campaigns, i) ==
  IF i > Len(campaigns) THEN weeklyMap
  ELSE WeeklyFoldCampaigns(
         WeeklyFoldEntries(weeklyMap, campaigns[i].weekly_performance, 1),
         campaigns, i + 1)

\* Reading .forEach of a collection the campaign does not have is a TypeError.
Dereferences(doc, field) ==
  \E i \in 1..Len(doc.campaigns) : field \in doc.campaigns[i].absent

getAggregatedWeeklyData(marketingData) ==
  IF IsNull(marketingData) \/ ~marketingData[1].hasCampaigns THEN <<>>
  ELSE LET values == MapValues(WeeklyFoldCampaigns(<<>>, marketingData[1].campaigns, 1))
       IN  StableSort(values, [i \in 1..Len(values) |-> DateGetTime(values[i].week_start)])

\* transformWeeklyData: the chart label is the month and day of the date.
transformWeeklyData(weeklyData) ==
  [i \in 1..Len(weeklyData) |->
     [name |-> <<weeklyData[i].week_start.m, weeklyData[i].week_start.d>>,
      revenue |-> weeklyData[i].revenue,
      spend |-> weeklyData[i].spend,
      impressions |-> weeklyData[i].impressions,
      clicks |-> weeklyData[i].clicks,
      conversions |-> weeklyData[i].conversions]]

WeeklyWidgets(marketingData) ==
  LET aggregatedWeeklyData == getAggregatedWeeklyData(marketingData)
  IN  [aggregatedWeeklyData |-> aggregatedWeeklyData,
       chartData |-> transformWeeklyData(aggregatedWeeklyData)]

(***************************************************************************)
(* Region view: getAggregatedRegionalData.                                 *)
(***************************************************************************)
\* `${region.region}-${region.country}`
RegionKey(region) == region.region \o <<"-">> \o region.country

\* One step of the inner forEach: fold `region` into regionalMap.  A merged
\* bucket keeps the sums and takes the five rates of the entry folded in.
RegionalFoldEntry(regionalMap, region) ==
  LET key == RegionKey(region) IN
  IF MapHas(regionalMap, key)
  THEN LET existing == MapGet(regionalMap, key) IN
       MapSet(regionalMap, key,
              [existing EXCEPT
                 !.impressions = existing.impressions + region.impressions,
                 !.clicks = existing.clicks + region.clicks,
                 !.conversions = existing.conversions + region.conversions,
                 !.spend = existing.spend + region.spend,
                 !.revenue = existing.revenue + region.revenue,
                 !.ctr = region.ctr,
                 !.conversion_rate = region.conversion_rate,
                 !.cpc = region.cpc,
                 !.cpa = region.cpa,
                 !.roas = region.roas])
  ELSE MapSet(regionalMap, key, region)

RECURSIVE RegionalFoldEntries(_, _, _)
RegionalFoldEntries(regionalMap, entries, i) ==
  IF i > Len(entries) THEN regionalMap
  ELSE RegionalFoldEntries(RegionalFoldEntry(regionalMap, entries[i]), entries, i + 1)

RECURSIVE RegionalFoldCampaigns(_, _, _)
RegionalFoldCampaigns(regionalMap, campaigns, i) ==
  IF i > Len(campaigns) THEN regionalMap
  ELSE RegionalFoldCampaigns(
         RegionalFoldEntries(regionalMap, campaigns[i].regional_performance, 1),
         campaigns, i + 1)

getAggregatedRegionalData(marketingData) ==
  IF IsNull(marketingData) \/ ~marketingData[1].hasCampaigns THEN <<>>
  ELSE MapValues(RegionalFoldCampaigns(<<>>, marketingData[1].campaigns, 1))

(***************************************************************************)
(* bubble-map: CITY_COORDINATES, transformRegionalDataForBubbleMap and the *)
(* BubbleMap widget.                                                       *)
(***************************************************************************)
Coordinates(latN, lngN) == [lat |-> Num(latN, 10000), lng |-> Num(lngN, 10000)]

CITY_COORDINATES ==
  [name \in {Str("Abu Dhabi"), Str("Dubai"), Str("Sharjah"), Str("Riyadh"),
             Str("Doha"), Str("Kuwait City"), Str("Manama")} |->
     CASE name = Str("Abu Dhabi") -> Coordinates(244539, 543773)
       [] name = Str("Dubai") -> Coordinates(252048, 552708)
       [] name = Str("Sharjah") -> Coordinates(253573, 554033)
       [] name = Str("Riyadh") -> Coordinates(247136, 466753)
       [] name = Str("Doha") -> Coordinates(252854, 515310)
       [] name = Str("Kuwait City") -> Coordinates(293759, 479774)
       [] name = Str("Manama") -> Coordinates(260667, 505577)]

\* CITY_COORDINATES is an object literal: a property read that finds no own
\* key goes on to Object.prototype, whose members are functions and objects
\* (truthy) that have no lat or lng.
ObjectPrototypeProperties ==
  { Str("constructor"), Str("toString"), Str("toLocaleString"), Str("valueOf"),
    Str("hasOwnProperty"), Str("isPrototypeOf"), Str("propertyIsEnumerable"),
    Str("__proto__") }

\* CITY_COORDINATES[name]: undefined is falsy; lat and lng are Null when the
\* value read has no such property.
CityLookup(name) ==
  IF name \in DOMAIN CITY_COORDINATES
  THEN [truthy |-> TRUE,
        lat |-> Some(CITY_COORDINATES[name].lat),
        lng |-> Some(CITY_COORDINATES[name].lng)]
  ELSE IF name \in ObjectPrototypeProperties
  THEN [truthy |-> TRUE, lat |-> Null, lng |-> Null]
  ELSE [truthy |-> FALSE, lat |-> Null, lng |-> Null]

\* item[valueType]
ItemValue(item, valueType) ==
  CASE valueType = "revenue" -> item.revenue
    [] valueType = "spend" -> item.spend
    [] valueType = "impressions" -> item.impressions
    [] valueType = "clicks" -> item.clicks
    [] valueType = "conversions" -> item.conversions

\* The .map() step: null for an item whose lookup is falsy.
BubbleMapPoint(item, valueType) ==
  LET coordinates == CityLookup(item.region) IN
  IF ~coordinates.truthy THEN Null
  ELSE Some([region |-> item.region,
             country |-> item.country,
             latitude |-> coordinates.lat,
             longitude |-> coordinates.lng,
             value |-> ItemValue(item, valueType),
             additionalData |->
               [revenue |-> item.revenue, spend |-> item.spend,
                impressions |-> item.impressions, clicks |-> item.clicks,
                conversions |-> item.conversions]])

RECURSIVE FilterBoolean(_)
FilterBoolean(s) ==
  IF s = <<>> THEN <<>>
  ELSE (IF IsNull(Head(s)) THEN <<>> ELSE <<Head(s)[1]>>) \o FilterBoolean(Tail(s))

transformRegionalDataForBubbleMap(regionalData, valueType) ==
  FilterBoolean([i \in 1..Len(regionalData) |-> BubbleMapPoint(regionalData[i], valueType)])

\* Math.min(...values) and Math.max(...values) of a non-empty array.
MathMin(values) ==
  CHOOSE v \in {values[i] : i \in 1..Len(values)} :
    \A j \in 1..Len(values) : v <= values[j]

MathMax(values) ==
  CHOOSE v \in {values[i] : i \in 1..Len(values)} :
    \A j \in 1..Len(values) : v >= values[j]

\* A radius scaled by value / maxValue instead of the position in the range.
getRadius_OverMax(value, minValue, maxValue, minRadius, maxRadius) ==
  IF maxValue = minValue THEN Num(minRadius + maxRadius, 2)
  ELSE NumAdd(Int2Num(minRadius),
              NumMul(Int2Num(maxRadius - minRadius), Num(value, maxValue)))

getRadius(value, minValue, maxValue, minRadius, maxRadius) ==
  IF maxValue = minValue THEN Num(minRadius + maxRadius, 2)
  ELSE LET ratio == Num(value - minValue, maxValue - minValue)
       IN  NumAdd(Int2Num(minRadius), NumMul(Int2Num(maxRadius - minRadius), ratio))

HexColor(css) == [css |-> css, rgb |-> <<>>]
RgbColor(r, g, b) == [css |-> "rgb", rgb |-> <<r, g, b>>]

getColor(value, minValue, maxValue) ==
  IF maxValue = minValue THEN HexColor("#3B82F6")
  ELSE LET ratio == Num(value - minValue, maxValue - minValue) IN
       IF NumLess(ratio, Num(1, 2))
       THEN LET intensity == NumMul(ratio, Int2Num(2)) IN
            RgbColor(MathFloor(NumAdd(Int2Num(59), NumMul(intensity, Int2Num(196)))),
                     MathFloor(NumAdd(Int2Num(130), NumMul(intensity, Int2Num(125)))),
                     MathFloor(NumSub(Int2Num(246), NumMul(intensity, Int2Num(246)))))
       ELSE LET intensity == NumMul(NumSub(ratio, Num(1, 2)), Int2Num(2)) IN
            RgbColor(MathFloor(NumSub(Int2Num(255), NumMul(intensity, Int2Num(255)))),
                     MathFloor(NumSub(Int2Num(255), NumMul(intensity, Int2Num(255)))),
                     MathFloor(NumSub(Int2Num(246), NumMul(intensity, Int2Num(246)))))

\* The widget: "No data available" for an empty array, else one circle
\* marker per point and the legend's minimum and maximum.
BubbleMap(points, minRadius, maxRadius) ==
  IF Len(points) = 0
  THEN [empty |-> TRUE, markers |-> <<>>, legend |-> <<>>,
        minRadius |-> minRadius, maxRadius |-> maxRadius]
  ELSE LET values == [i \in 1..Len(points) |-> points[i].value]
           minValue == MathMin(values)
           maxValue == MathMax(values)
       IN  [empty |-> FALSE,
            markers |->
              [i \in 1..Len(points) |->
                 [region |-> points[i].region,
                  country |-> points[i].country,
                  center |-> <<points[i].latitude, points[i].longitude>>,
                  value |-> points[i].value,
                  radius |-> getRadius(points[i].value, minValue, maxValue,
                                       minRadius, maxRadius),
                  fillColor |-> getColor(points[i].value, minValue, maxValue)]],
            legend |-> <<minValue, maxValue>>,
            minRadius |-> minRadius, maxRadius |-> maxRadius]

\* The four maps of the region page.
RegionWidgets(marketingData) ==
  LET aggregatedRegionalData == getAggregatedRegionalData(marketingData) IN
  [aggregatedRegionalData |-> aggregatedRegionalData,
   revenueMap |->
     BubbleMap(transformRegionalDataForBubbleMap(aggregatedRegionalData, "revenue"), 10, 60),
   spendMap |->
     BubbleMap(transformRegionalDataForBubbleMap(aggregatedRegionalData, "spend"), 10, 60),
   impressionsMap |->
     BubbleMap(transformRegionalDataForBubbleMap(aggregatedRegionalData, "impressions"), 8, 50),
   conversionsMap |->
     BubbleMap(transformRegionalDataForBubbleMap(aggregatedRegionalData, "conversions"), 8, 50)]

(***************************************************************************)
(* Apportionment, shared by the demographic and device views.              *)
(***************************************************************************)
\* entry.percentage_of_audience / 100
\* The percentage used as the fraction, without the division by 100.
Percentage_NotDivided(entry) == entry.percentage_of_audience

Percentage(entry) == NumDiv(entry.percentage_of_audience, Int2Num(100))

\* A share of spend or revenue rounded to the nearest whole number.
Apportion_Rounded(total, percentage) ==
  Int2Num(MathRound(NumMul(Int2Num(total), percentage)))

\* total * percentage, kept as it is (spend, revenue).
Apportion(total, percentage) == NumMul(Int2Num(total), percentage)

\* Math.round(total * percentage) (impressions, clicks, conversions).
ApportionRounded(total, percentage) == MathRound(Apportion(total, percentage))

\* (a / b) * 100 on two counts; a / 0 is Infinity or NaN.
Ratio100(a, b) == NumMul(NumDiv(Int2Num(a), Int2Num(b)), Int2Num(100))

(***************************************************************************)
(* Demographic view.                                                       *)
(***************************************************************************)
\* localeCompare on the age-group labels: their rank in collation order.
LocaleRank(label) ==
  CASE label = "18-24" -> 1
    [] label = "25-34" -> 2
    [] label = "35-44" -> 3
    [] label = "45-54" -> 4
    [] OTHER -> 5

\* Rows left in the order of the Map (no sort).
SortByAgeGroup_MapOrder(rows) == rows

SortByAgeGroup(rows) ==
  StableSort(rows, [i \in 1..Len(rows) |-> LocaleRank(rows[i].ageGroup)])

DemographicFoldEntry(metrics, campaign, demo) ==
  LET percentage == Percentage(demo)
      clicks == ApportionRounded(campaign.clicks, percentage)
      spend == Apportion(campaign.spend, percentage)
      revenue == Apportion(campaign.revenue, percentage)
  IN  IF demo.gender = "Male"
      THEN [metrics EXCEPT !.maleClicks = @ + clicks,
                           !.maleSpend = NumAdd(@, spend),
                           !.maleRevenue = NumAdd(@, revenue)]
      ELSE IF demo.gender = "Female"
      THEN [metrics EXCEPT !.femaleClicks = @ + clicks,
                           !.femaleSpend = NumAdd(@, spend),
                           !.femaleRevenue = NumAdd(@, revenue)]
      ELSE metrics

\* The nested forEach: every entry of every campaign, in document order.
RECURSIVE FoldDemographic(_, _, _, _)
FoldDemographic(metrics, campaigns, i, j) ==
  IF i > Len(campaigns) THEN metrics
  ELSE IF j > Len(campaigns[i].demographic_breakdown)
  THEN FoldDemographic(metrics, campaigns, i + 1, 1)
  ELSE FoldDemographic(
         DemographicFoldEntry(metrics, campaigns[i],
                              campaigns[i].demographic_breakdown[j]),
         campaigns, i, j + 1)

ZeroDemographicMetrics ==
  [maleClicks |-> 0, maleSpend |-> Zero, maleRevenue |-> Zero,
   femaleClicks |-> 0, femaleSpend |-> Zero, femaleRevenue |-> Zero]

processDemographicMetrics(stored) ==
  IF IsNull(stored) \/ ~stored[1].hasCampaigns THEN ZeroDemographicMetrics
  ELSE FoldDemographic(ZeroDemographicMetrics, stored[1].campaigns, 1, 1)

AgeGroupFoldEntry(ageGroupMap, campaign, demo) ==
  LET percentage == Percentage(demo)
      spend == Apportion(campaign.spend, percentage)
      revenue == Apportion(campaign.revenue, percentage)
      existing == IF MapHas(ageGroupMap, demo.age_group)
                  THEN MapGet(ageGroupMap, demo.age_group)
                  ELSE [spend |-> Zero, revenue |-> Zero]
  IN  MapSet(ageGroupMap, demo.age_group,
             [spend |-> NumAdd(existing.spend, spend),
              revenue |-> NumAdd(existing.revenue, revenue)])

RECURSIVE FoldAgeGroup(_, _, _, _)
FoldAgeGroup(ageGroupMap, campaigns, i, j) ==
  IF i > Len(campaigns) THEN ageGroupMap
  ELSE IF j > Len(campaigns[i].demographic_breakdown)
  THEN FoldAgeGroup(ageGroupMap, campaigns, i + 1, 1)
  ELSE FoldAgeGroup(
         AgeGroupFoldEntry(ageGroupMap, campaigns[i],
                           campaigns[i].demographic_breakdown[j]),
         campaigns, i, j + 1)

processAgeGroupData(stored) ==
  IF IsNull(stored) \/ ~stored[1].hasCampaigns THEN [spend |-> <<>>, revenue |-> <<>>]
  ELSE LET entries == MapEntries(FoldAgeGroup(<<>>, stored[1].campaigns, 1, 1)) IN
       [spend |->
          SortByAgeGroup([i \in 1..Len(entries) |->
             [ageGroup |-> entries[i][1], spend |-> entries[i][2].spend,
              revenue |-> Zero]]),
        revenue |->
          SortByAgeGroup([i \in 1..Len(entries) |->
             [ageGroup |-> entries[i][1], spend |-> Zero,
              revenue |-> entries[i][2].revenue]])]

\* The row built for an entry (the `performance` object).
PerformanceRow(campaign, demo) ==
  LET percentage == Percentage(demo)
      impressions == ApportionRounded(campaign.impressions, percentage)
      clicks == ApportionRounded(campaign.clicks, percentage)
      conversions == ApportionRounded(campaign.conversions, percentage)
      ctr == IF clicks > 0 THEN Ratio100(clicks, impressions) ELSE Zero
      conversionRate == IF clicks > 0 THEN Ratio100(conversions, clicks) ELSE Zero
  IN  [ageGroup |-> demo.age_group,
       gender |-> demo.gender,
       impressions |-> impressions,
       clicks |-> clicks,
       conversions |-> conversions,
       ctr |-> ToFixed2(ctr),
       conversionRate |-> ToFixed2(conversionRate)]

\* The update of a row found in maleMap or femaleMap.
\* A merge that averages the two rows' rates instead of recomputing them.
MergePerformance_AveragesRates(existing, performance) ==
  [existing EXCEPT
     !.impressions = existing.impressions + performance.impressions,
     !.clicks = existing.clicks + performance.clicks,
     !.conversions = existing.conversions + performance.conversions,
     !.ctr = NumDiv(NumAdd(existing.ctr, performance.ctr), Int2Num(2)),
     !.conversionRate =
        NumDiv(NumAdd(existing.conversionRate, performance.conversionRate), Int2Num(2))]

MergePerformance(existing, performance) ==
  LET impressions == existing.impressions + performance.impressions
      clicks == existing.clicks + performance.clicks
      conversions == existing.conversions + performance.conversions
  IN  [existing EXCEPT
         !.impressions = impressions,
         !.clicks = clicks,
         !.conversions = conversions,
         !.ctr = IF clicks > 0 THEN ToFixed2(Ratio100(clicks, impressions)) ELSE Zero,
         !.conversionRate =
            IF clicks > 0 THEN ToFixed2(Ratio100(conversions, clicks)) ELSE Zero]

GenderMapFold(genderMap, performance) ==
  IF MapHas(genderMap, performance.ageGroup)
  THEN MapSet(genderMap, performance.ageGroup,
              MergePerformance(MapGet(genderMap, performance.ageGroup), performance))
  ELSE MapSet(genderMap, performance.ageGroup, performance)

PerformanceFoldEntry(maps, campaign, demo) ==
  LET performance == PerformanceRow(campaign, demo) IN
  IF demo.gender = "Male"
  THEN [maps EXCEPT !.male = GenderMapFold(@, performance)]
  ELSE IF demo.gender = "Female"
  THEN [maps EXCEPT !.female = GenderMapFold(@, performance)]
  ELSE maps

RECURSIVE FoldPerformance(_, _, _, _)
FoldPerformance(maps, campaigns, i, j) ==
  IF i > Len(campaigns) THEN maps
  ELSE IF j > Len(campaigns[i].demographic_breakdown)
  THEN FoldPerformance(maps, campaigns, i + 1, 1)
  ELSE FoldPerformance(
         PerformanceFoldEntry(maps, campaigns[i],
                              campaigns[i].demographic_breakdown[j]),
         campaigns, i, j + 1)

processCampaignPerformance(stored) ==
  IF IsNull(stored) \/ ~stored[1].hasCampaigns THEN [male |-> <<>>, female |-> <<>>]
  ELSE LET maps == FoldPerformance([male |-> <<>>, female |-> <<>>],
                                   stored[1].campaigns, 1, 1)
       IN  [male |-> SortByAgeGroup(MapValues(maps.male)),
            female |-> SortByAgeGroup(MapValues(maps.female))]

DemographicWidgets(stored) ==
  [demographicMetrics |-> processDemographicMetrics(stored),
   ageGroupData |-> processAgeGroupData(stored),
   campaignPerformance |-> processCampaignPerformance(stored)]

(***************************************************************************)
(* Device view.                                                            *)
(***************************************************************************)
DeviceFoldEntry(metrics, campaign, device) ==
  LET percentage == Percentage(device)
      clicks == ApportionRounded(campaign.clicks, percentage)
      spend == Apportion(campaign.spend, percentage)
      revenue == Apportion(campaign.revenue, percentage)
  IN  CASE device.device_type = "Mobile" ->
             [metrics EXCEPT !.mobileClicks = @ + clicks,
                             !.mobileSpend = NumAdd(@, spend),
                             !.mobileRevenue = NumAdd(@, revenue)]
        [] device.device_type = "Desktop" ->
             [metrics EXCEPT !.desktopClicks = @ + clicks,
                             !.desktopSpend = NumAdd(@, spend),
                             !.desktopRevenue = NumAdd(@, revenue)]
        [] device.device_type = "Tablet" ->
             [metrics EXCEPT !.tabletClicks = @ + clicks,
                             !.tabletSpend = NumAdd(@, spend),
                             !.tabletRevenue = NumAdd(@, revenue)]
        [] OTHER -> metrics

RECURSIVE FoldDevice(_, _, _, _)
FoldDevice(metrics, campaigns, i, j) ==
  IF i > Len(campaigns) THEN metrics
  ELSE IF j > Len(campaigns[i].device_breakdown)
  THEN FoldDevice(metrics, campaigns, i + 1, 1)
  ELSE FoldDevice(
         DeviceFoldEntry(metrics, campaigns[i], campaigns[i].device_breakdown[j]),
         campaigns, i, j + 1)

initialMetrics ==
  [mobileClicks |-> 0, mobileSpend |-> Zero, mobileRevenue |-> Zero,
   desktopClicks |-> 0, desktopSpend |-> Zero, desktopRevenue |-> Zero,
   tabletClicks |-> 0, tabletSpend |-> Zero, tabletRevenue |-> Zero]

processDeviceMetrics(stored) ==
  IF IsNull(stored) \/ ~stored[1].hasCampaigns THEN initialMetrics
  ELSE FoldDevice(initialMetrics, stored[1].campaigns, 1, 1)

\* A chart fold step that stores the entry's share instead of adding it.
DeviceChartFoldEntry_Overwrites(deviceMap, campaign, device) ==
  MapSet(deviceMap, device.device_type,
         [spend |-> Apportion(campaign.spend, Percentage(device)),
          revenue |-> Apportion(campaign.revenue, Percentage(device))])

DeviceChartFoldEntry(deviceMap, campaign, device) ==
  LET percentage == Percentage(device)
      spend == Apportion(campaign.spend, percentage)
      revenue == Apportion(campaign.revenue, percentage)
      existing == IF MapHas(deviceMap, device.device_type)
                  THEN MapGet(deviceMap, device.device_type)
                  ELSE [spend |-> Zero, revenue |-> Zero]
  IN  MapSet(deviceMap, device.device_type,
             [spend |-> NumAdd(existing.spend, spend),
              revenue |-> NumAdd(existing.revenue, revenue)])

RECURSIVE FoldDeviceChart(_, _, _, _)
FoldDeviceChart(deviceMap, campaigns, i, j) ==
  IF i > Len(campaigns) THEN deviceMap
  ELSE IF j > Len(campaigns[i].device_breakdown)
  THEN FoldDeviceChart(deviceMap, campaigns, i + 1, 1)
  ELSE FoldDeviceChart(
         DeviceChartFoldEntry(deviceMap, campaigns[i],
                              campaigns[i].device_breakdown[j]),
         campaigns, i, j + 1)

processDeviceChartData(stored) ==
  IF IsNull(stored) \/ ~stored[1].hasCampaigns THEN [spend |-> <<>>, revenue |-> <<>>]
  ELSE LET entries == MapEntries(FoldDeviceChart(<<>>, stored[1].campaigns, 1, 1)) IN
       [spend |-> [i \in 1..Len(entries) |->
                     [label |-> entries[i][1], value |-> entries[i][2].spend]],
        revenue |-> [i \in 1..Len(entries) |->
                     [label |-> entries[i][1], value |-> entries[i][2].revenue]]]

\* The row built for an entry of a campaign's device_breakdown.
DevicePerformanceRow(campaign, device) ==
  LET percentage == Percentage(device)
      impressions == ApportionRounded(campaign.impressions, percentage)
      clicks == ApportionRounded(campaign.clicks, percentage)
      conversions == ApportionRounded(campaign.conversions, percentage)
      ctr == IF impressions > 0 THEN Ratio100(clicks, impressions) ELSE Zero
      conversionRate == IF clicks > 0 THEN Ratio100(conversions, clicks) ELSE Zero
  IN  [campaignName |-> campaign.name,
       deviceType |-> device.device_type,
       impressions |-> impressions,
       clicks |-> clicks,
       conversions |-> conversions,
       ctr |-> ToFixed2(ctr),
       conversionRate |-> ToFixed2(conversionRate)]

DeviceTablesFoldEntry(tables, campaign, device) ==
  LET performance == DevicePerformanceRow(campaign, device) IN
  CASE device.device_type = "Mobile" -> [tables EXCEPT !.mobile = Append(@, performance)]
    [] device.device_type = "Desktop" -> [tables EXCEPT !.desktop = Append(@, performance)]
    [] device.device_type = "Tablet" -> [tables EXCEPT !.tablet = Append(@, performance)]
    [] OTHER -> tables

RECURSIVE FoldDeviceTables(_, _, _, _)
FoldDeviceTables(tables, campaigns, i, j) ==
  IF i > Len(campaigns) THEN tables
  ELSE IF j > Len(campaigns[i].device_breakdown)
  THEN FoldDeviceTables(tables, campaigns, i + 1, 1)
  ELSE FoldDeviceTables(
         DeviceTablesFoldEntry(tables, campaigns[i], campaigns[i].device_breakdown[j]),
         campaigns, i, j + 1)

processCampaignPerformanceByDevice(stored) ==
  IF IsNull(stored) \/ ~stored[1].hasCampaigns
  THEN [mobile |-> <<>>, desktop |-> <<>>, tablet |-> <<>>]
  ELSE FoldDeviceTables([mobile |-> <<>>, desktop |-> <<>>, tablet |-> <<>>],
                        stored[1].campaigns, 1, 1)

DeviceWidgets(stored) ==
  [deviceMetrics |-> processDeviceMetrics(stored),
   deviceChartData |-> processDeviceChartData(stored),
   campaignPerformance |-> processCampaignPerformanceByDevice(stored)]

(***************************************************************************)
(* The render pass of a view: the reductions run first, on every pass;     *)
(* then the screen is chosen from loading and error.                       *)
(***************************************************************************)
\* A JavaScript string used as a condition: null and "" are falsy.
Truthy(o) == ~IsNull(o) /\ o[1] # ""

\* The reductions of view v dereference a collection some campaign lacks.
ReducersThrow(v, d) ==
  /\ ~IsNull(d)
  /\ d[1].hasCampaigns
  /\ Dereferences(d[1], FieldOf(v))

Widgets(v, d) ==
  CASE v = "weekly" -> WeeklyWidgets(d)
    [] v = "region" -> RegionWidgets(d)
    [] v = "demographic" -> DemographicWidgets(d)
    [] v = "device" -> DeviceWidgets(d)

RenderView(v, l, e, d) ==
  IF ReducersThrow(v, d)
  THEN [screen |-> "crash", message |-> Null, widgets |-> Null]
  ELSE IF l
  THEN [screen |-> "placeholder", message |-> Null, widgets |-> Null]
  ELSE IF Truthy(e)
  THEN [screen |-> "error", message |-> e, widgets |-> Null]
  ELSE [screen |-> "dashboard", message |-> Null, widgets |-> Some(Widgets(v, d))]

\* What is on screen: the render pass of a mounted view, nothing once the
\* view has been removed (a state setter called after that renders nothing).
Unmounted == [screen |-> "none", message |-> Null, widgets |-> Null]

OnScreen(m, v, l, e, d) == IF m THEN RenderView(v, l, e, d) ELSE Unmounted

(***************************************************************************)
(* The fetch lifecycle of a view (the useEffect of each page).             *)
(***************************************************************************)
\* The views that call fetchMarketingDataClient(); the others call fetch()
\* and response.json() themselves.
ClientViews == {"weekly", "region"}

\* What a rejected promise may carry: an Error with a message, an Error with
\* an empty message, a thrown value that is no Error.
Thrown ==
  { [isError |-> TRUE, message |-> "Failed to fetch"],
    [isError |-> TRUE, message |-> ""],
    [isError |-> FALSE, message |-> "timeout"] }

\* err instanceof Error ? err.message : <the view's default message>
CatchMessage(v, err) ==
  IF err.isError THEN err.message
  ELSE IF v \in ClientViews THEN "Failed to load data" ELSE "An error occurred"

\* The totals of a campaign of the weekly and region views, which read
\* none of them.
SomeTotals == CHOOSE t \in Totals : t.impressions = 1000

\* The documents view v is checked on: at most MaxCampaigns campaigns that
\* carry at most MaxEntries entries of the view's collection between them,
\* and the document without campaigns.
EntriesOf(v) ==
  CASE v = "weekly" -> WeeklyEntries
    [] v = "region" -> RegionalEntries
    [] v = "demographic" -> DemographicEntries
    [] v = "device" -> DeviceEntries

TotalsOf(v) == IF v \in {"weekly", "region"} THEN {SomeTotals} ELSE Totals

\* Three entries, the third with the key of the first and the second with
\* another key: a later campaign merges into a bucket that is not the last.
Interleaved(v) ==
  CASE v = "weekly" ->
         { << WeeklyEntry(DateString(2024, 1, 8, ""), [impressions |-> 1000, clicks |-> 100,
                  conversions |-> 10, spend |-> 200, revenue |-> 400]),
              WeeklyEntry(DateString(2024, 1, 1, ""), [impressions |-> 1000, clicks |-> 100,
                  conversions |-> 10, spend |-> 200, revenue |-> 400]),
              WeeklyEntry(DateString(2024, 1, 8, ""), [impressions |-> 1, clicks |-> 3,
                  conversions |-> 1, spend |-> 1, revenue |-> 2]) >> }
    [] v = "region" ->
         { << RegionalEntry(Str("Dubai"), Str("UAE"), RegionalMetrics.A),
              RegionalEntry(Str("Doha"), Str("Qatar"), RegionalMetrics.C),
              RegionalEntry(Str("Dubai"), Str("UAE"), RegionalMetrics.B) >>,
           << RegionalEntry(Str("Dubai"), Str("UAE"), RegionalMetrics.A),
              RegionalEntry(Str("Dubai"), Str("Oman"), RegionalMetrics.A),
              RegionalEntry(Str("Dubai"), Str("UAE"), RegionalMetrics.B) >> }
    [] v = "demographic" ->
         { << DemographicEntry("25-34", "Male", 50),
              DemographicEntry("18-24", "Male", 50),
              DemographicEntry("25-34", "Male", 40) >> }
    [] v = "device" ->
         { << DeviceEntry("Mobile", 50), DeviceEntry("Desktop", 50),
              DeviceEntry("Mobile", 40) >> }

\* The first two entries are the first campaign's, the third the second's.
InterleavedCut == [i \in 0..2 |-> IF i = 0 THEN 0 ELSE i + 1]

\* P(doc) for some document of view v.
SomeDocument(v, P(_)) ==
  \/ P(NoCampaignsDoc)
  \/ \E es \in Interleaved(v) :
     \E t \in [1..2 -> TotalsOf(v)] :
        P(Document(FieldOf(v), 2, es, InterleavedCut, t, 0))
  \/ \E n \in 0..MaxCampaigns :
     \E es \in SeqsUpTo(EntriesOf(v), MaxEntries) :
     \E c \in Cuts(n, Len(es)) :
     \E t \in [1..n -> TotalsOf(v)] :
     \E a \in {0} \cup MayLack(n, c) :
        P(Document(FieldOf(v), n, es, c, t, a))

(***************************************************************************)
(* Device view, fetch step: a campaign without device_breakdown gets three *)
(* entries from Math.random(), normalised to sum to 100.                   *)
(***************************************************************************)
\* Values Math.random() may return (it returns a number in [0, 1)).
Randoms == {Num(0, 1), Num(1, 2)}

\* A synthesis that skips the division by the sum of the three values.
SynthesizedBreakdown_NotNormalised(r) ==
  << [device_type |-> "Mobile",
      percentage_of_audience |-> NumAdd(NumMul(r[1], Int2Num(50)), Int2Num(25))],
     [device_type |-> "Desktop",
      percentage_of_audience |-> NumAdd(NumMul(r[2], Int2Num(30)), Int2Num(10))],
     [device_type |-> "Tablet",
      percentage_of_audience |-> NumAdd(NumMul(r[3], Int2Num(10)), Int2Num(2))] >>

SynthesizedBreakdown(r) ==
  LET raw == << NumAdd(NumMul(r[1], Int2Num(50)), Int2Num(25)),
                NumAdd(NumMul(r[2], Int2Num(30)), Int2Num(10)),
                NumAdd(NumMul(r[3], Int2Num(10)), Int2Num(2)) >>
      total == NumAdd(NumAdd(NumAdd(Zero, raw[1]), raw[2]), raw[3])
      types == <<"Mobile", "Desktop", "Tablet">>
  IN  [k \in 1..3 |->
         [device_type |-> types[k],
          percentage_of_audience |->
            NumMul(NumDiv(raw[k], total), Int2Num(100))]]

\* The campaigns whose device_breakdown is missing.
WithoutDeviceBreakdown(result) ==
  {i \in 1..Len(result.campaigns) : "device_breakdown" \in result.campaigns[i].absent}

\* The draws of Math.random(), three for each such campaign.
RandomDraws(result) == [WithoutDeviceBreakdown(result) -> [1..3 -> Randoms]]

\* result.campaigns.forEach(...): the document after the in-place update.
MockDeviceBreakdown(result, draws) ==
  [result EXCEPT !.campaigns =
     [i \in 1..Len(result.campaigns) |->
        IF "device_breakdown" \in result.campaigns[i].absent
        THEN [result.campaigns[i] EXCEPT
                !.device_breakdown = SynthesizedBreakdown(draws[i]),
                !.absent = @ \ {"device_breakdown"}]
        ELSE result.campaigns[i]]]

Init ==
  /\ view \in Views
  /\ pc = "mounted"
  /\ loading = TRUE
  /\ error = Null
  /\ data = Null
  /\ outcome = "pending"
  /\ rendered = RenderView(view, TRUE, Null, Null)
  /\ mounted = TRUE
  /\ fetches = 0
  /\ fetched = Null
  /\ lateSetters = FALSE

\* A catch block that is not followed by the finally block.
Fail_WithoutFinally(message) ==
  /\ error' = Some(message)
  /\ loading' = loading
  /\ data' = data
  /\ outcome' = "failure"
  /\ pc' = "done"
  /\ rendered' = OnScreen(mounted, view, loading', error', data')
  /\ lateSetters' = ~mounted
  /\ UNCHANGED <<view, mounted, fetches>>

\* The catch and finally blocks: setError(message); setLoading(false).
Fail(message) ==
  /\ error' = Some(message)
  /\ loading' = FALSE
  /\ data' = data
  /\ outcome' = "failure"
  /\ pc' = "done"
  /\ rendered' = OnScreen(mounted, view, loading', error', data')
  /\ lateSetters' = ~mounted
  /\ UNCHANGED <<view, mounted, fetches>>

\* A success path whose finally block does not clear loading.
Succeed_StillLoading(result) ==
  /\ data' = Some(result)
  /\ loading' = loading
  /\ error' = error
  /\ outcome' = "success"
  /\ pc' = "done"
  /\ rendered' = OnScreen(mounted, view, loading', error', data')
  /\ lateSetters' = ~mounted
  /\ UNCHANGED <<view, mounted, fetches>>

\* setData(result) / setMarketingData(data) and the finally block:
\* setLoading(false).
Succeed(result) ==
  /\ data' = Some(result)
  /\ loading' = FALSE
  /\ error' = error
  /\ outcome' = "success"
  /\ pc' = "done"
  /\ rendered' = OnScreen(mounted, view, loading', error', data')
  /\ lateSetters' = ~mounted
  /\ UNCHANGED <<view, mounted, fetches>>

\* An effect that also runs again after a failure (a retry).
RunEffect_Retries ==
  /\ pc = "mounted" \/ (pc = "done" /\ outcome = "failure" /\ fetches < 2)
  /\ pc' = IF view \in ClientViews THEN "awaitClient" ELSE "awaitFetch"
  /\ loading' = TRUE
  /\ fetches' = fetches + 1
  /\ UNCHANGED <<view, error, data, outcome, mounted, fetched, lateSetters>>
  /\ rendered' = OnScreen(mounted, view, loading', error', data')

\* The effect after the first render: loadData() or fetchData() up to its
\* first await, where the fetch is started.  The client views call
\* setLoading(true) first.  The dependency list is empty, so the effect runs
\* once, and it runs before the view can be removed.
RunEffect ==
  /\ pc = "mounted"
  /\ pc' = IF view \in ClientViews THEN "awaitClient" ELSE "awaitFetch"
  /\ loading' = IF view \in ClientViews THEN TRUE ELSE loading
  /\ fetches' = fetches + 1
  /\ UNCHANGED <<view, error, data, outcome, mounted, fetched, lateSetters>>
  /\ rendered' = OnScreen(mounted, view, loading', error', data')

\* A teardown that abandons the pending async function.
Unmount_Cancels ==
  /\ mounted
  /\ pc # "mounted"
  /\ mounted' = FALSE
  /\ pc' = "done"
  /\ rendered' = Unmounted
  /\ UNCHANGED <<view, loading, error, data, outcome, fetches, fetched, lateSetters>>

\* The view is removed from the tree (navigation).  The effect returns no
\* cleanup function, so the pending async function is left running.
Unmount ==
  /\ mounted
  /\ pc # "mounted"
  /\ mounted' = FALSE
  /\ rendered' = Unmounted
  /\ UNCHANGED <<view, pc, loading, error, data, outcome, fetches, fetched,
                 lateSetters>>

\* weekly, region: await fetchMarketingDataClient() returns the document.
ClientReturned(result) ==
  /\ fetched' = Some(result)
  /\ Succeed(result)

ClientResolved ==
  /\ pc = "awaitClient"
  /\ SomeDocument(view, ClientReturned)

\* weekly, region: await fetchMarketingDataClient() throws.
ClientRejected(err) ==
  /\ pc = "awaitClient"
  /\ fetched' = fetched
  /\ Fail(CatchMessage(view, err))

\* demographic, device: await fetch() returns a response; a response that
\* is not ok throws new Error('Failed to fetch data'), else response.json()
\* is awaited.
FetchResolved(ok) ==
  /\ pc = "awaitFetch"
  /\ IF ok
     THEN /\ pc' = "awaitJson"
          /\ UNCHANGED <<view, loading, error, data, outcome, rendered,
                          mounted, fetches, fetched, lateSetters>>
     ELSE /\ fetched' = fetched
          /\ Fail(CatchMessage(view, [isError |-> TRUE, message |-> "Failed to fetch data"]))

\* demographic, device: await fetch() throws.
FetchRejected(err) ==
  /\ pc = "awaitFetch"
  /\ fetched' = fetched
  /\ Fail(CatchMessage(view, err))

\* demographic, device: await response.json() returns the document.  The
\* device view first fills in missing device breakdowns, which throws a
\* TypeError on a document without campaigns.
JsonParsed(result) ==
  /\ fetched' = Some(result)
  /\ IF view = "device"
     THEN IF result.hasCampaigns
          THEN \E draws \in RandomDraws(result) :
                 Succeed(MockDeviceBreakdown(result, draws))
          ELSE Fail(CatchMessage(view,
                 [isError |-> TRUE,
                  message |-> "Cannot read properties of undefined (reading 'forEach')"]))
     ELSE Succeed(result)

\* The body is the JSON text null: response.json() returns null.  The
\* device view throws a TypeError reading result.campaigns; the demographic
\* view calls setData(null).
JsonNull == [hasCampaigns |-> FALSE, campaigns |-> <<>>, isNull |-> TRUE]

JsonParsedNull ==
  /\ fetched' = Some(JsonNull)
  /\ IF view = "device"
     THEN Fail(CatchMessage(view,
            [isError |-> TRUE,
             message |-> "Cannot read properties of null (reading 'campaigns')"]))
     ELSE /\ data' = Null
          /\ loading' = FALSE
          /\ error' = error
          /\ outcome' = "success"
          /\ pc' = "done"
          /\ rendered' = OnScreen(mounted, view, loading', error', data')
          /\ lateSetters' = ~mounted
          /\ UNCHANGED <<view, mounted, fetches>>

JsonResolved ==
  /\ pc = "awaitJson"
  /\ \/ SomeDocument(view, JsonParsed)
     \/ JsonParsedNull

\* demographic, device: await response.json() throws.
JsonRejected(err) ==
  /\ pc = "awaitJson"
  /\ fetched' = fetched
  /\ Fail(CatchMessage(view, err))

Next ==
  \/ RunEffect
  \/ Unmount
  \/ ClientResolved
  \/ \E err \in Thrown : ClientRejected(err)
  \/ \E ok \in BOOLEAN : FetchResolved(ok)
  \/ \E err \in Thrown : FetchRejected(err)
  \/ JsonResolved
  \/ \E err \in Thrown : JsonRejected(err)

Spec == Init /\ [][Next]_vars

\* A promise of the fetch settles and the async function resumes.
Settle ==
  \/ ClientResolved
  \/ \E err \in Thrown : ClientRejected(err)
  \/ \E ok \in BOOLEAN : FetchResolved(ok)
  \/ \E err \in Thrown : FetchRejected(err)
  \/ JsonResolved
  \/ \E err \in Thrown : JsonRejected(err)

\* The behaviours in which React runs the effect of a mounted view and
\* every promise the view awaits settles, the event loop then resuming the
\* async function.
FairSpec == Spec /\ WF_vars(RunEffect) /\ WF_vars(Settle)

(***************************************************************************)
(* Properties.                                                             *)
(***************************************************************************)
\* The dashboard of view v is on screen.
Dashboard(v) == view = v /\ rendered.screen = "dashboard"

\* What the dashboard shows, and the document it was computed from (the
\* reductions read a null document as one without campaigns).
Shown == rendered.widgets[1]
Stored == IF IsNull(data) THEN NoCampaignsDoc ELSE data[1]

RECURSIVE SumSeq(_)
SumSeq(s) == IF s = <<>> THEN 0 ELSE Head(s) + SumSeq(Tail(s))

RECURSIVE SumNums(_)
SumNums(s) == IF s = <<>> THEN Zero ELSE NumAdd(Head(s), SumNums(Tail(s)))

Range(s) == {s[i] : i \in 1..Len(s)}

\* Every <<campaign, entry>> of a collection, in document order.
RECURSIVE Pairs(_, _, _)
Pairs(campaigns, Entries(_), i) ==
  IF i > Len(campaigns) THEN <<>>
  ELSE [j \in 1..Len(Entries(campaigns[i])) |->
          [campaign |-> campaigns[i], entry |-> Entries(campaigns[i])[j]]]
       \o Pairs(campaigns, Entries, i + 1)

DemographicOf(c) == c.demographic_breakdown
DeviceOf(c) == c.device_breakdown
RegionalOf(c) == c.regional_performance
WeeklyOf(c) == c.weekly_performance

(***************************************************************************)
(* Object identity in the reductions.  The stored document's entries are   *)
(* objects; a reduction that kept one of them in its Map and assigned to   *)
(* it would change the document.  Each reduction is followed here by the   *)
(* references it keeps per key and the references it assigns to.           *)
(***************************************************************************)
\* A reference to an object the reduction created (an object literal or a
\* spread copy), and to entry j of campaign i of the stored document.
Fresh == <<>>
EntryRef(i, j) == <<i, j>>

\* The references of a document's entries, campaigns in order, entries in
\* order (the two nested forEach loops).
RECURSIVE EntryRefs(_, _, _)
EntryRefs(campaigns, Entries(_), i) ==
  IF i > Len(campaigns) THEN <<>>
  ELSE [j \in 1..Len(Entries(campaigns[i])) |-> EntryRef(i, j)]
       \o EntryRefs(campaigns, Entries, i + 1)

\* The object held at a key.
Deref(doc, Entries(_), ref) == Entries(doc.campaigns[ref[1]])[ref[2]]

\* The references assigned to while folding the entries at refs[k..]:
\* at first sight of a key the Map takes FirstSight(ref); at a merge the
\* reduction either assigns to the object the Map holds (inPlace) or puts a
\* new object in its place.
RECURSIVE AssignedRefs(_, _, _, _, _, _, _)
AssignedRefs(held, assigned, refs, k, Key(_), FirstSight(_), inPlace) ==
  IF k > Len(refs) THEN assigned
  ELSE LET key == Key(refs[k]) IN
       IF MapHas(held, key)
       THEN IF inPlace
            THEN AssignedRefs(held, assigned \cup {MapGet(held, key)},
                              refs, k + 1, Key, FirstSight, inPlace)
            ELSE AssignedRefs(MapSet(held, key, Fresh), assigned,
                              refs, k + 1, Key, FirstSight, inPlace)
       ELSE AssignedRefs(MapSet(held, key, FirstSight(refs[k])), assigned,
                         refs, k + 1, Key, FirstSight, inPlace)

\* weeklyMap.set(key, { ...week }) and regionalMap.set(key, { ...region }):
\* a copy of the entry; a merge sets a new object { ...existing, ... }.
SpreadCopy(ref) == Fresh

\* A first sight that keeps the document's own entry in the Map.
PerformanceObject_IsEntry(ref) == ref

\* maleMap.set(demo.age_group, performance): the object literal built for
\* the entry; a merge assigns to existing.impressions, .clicks, ...
PerformanceObject(ref) == Fresh

WeeklyAssigned(doc) ==
  LET Key(ref) == Deref(doc, WeeklyOf, ref).week_start IN
  AssignedRefs(<<>>, {}, EntryRefs(doc.campaigns, WeeklyOf, 1), 1, Key, SpreadCopy, FALSE)

RegionalAssigned(doc) ==
  LET Key(ref) == RegionKey(Deref(doc, RegionalOf, ref)) IN
  AssignedRefs(<<>>, {}, EntryRefs(doc.campaigns, RegionalOf, 1), 1, Key, SpreadCopy, FALSE)

\* Only Male and Female entries reach maleMap and femaleMap.
PerformanceAssigned(doc) ==
  LET Key(ref) == << Deref(doc, DemographicOf, ref).gender,
                     Deref(doc, DemographicOf, ref).age_group >>
      refs == SelectSeq(EntryRefs(doc.campaigns, DemographicOf, 1),
                        LAMBDA ref : Deref(doc, DemographicOf, ref).gender
                                       \in {"Male", "Female"})
  IN  AssignedRefs(<<>>, {}, refs, 1, Key, PerformanceObject, TRUE)

\* The references a render pass of view v assigns to.  The metrics
\* reductions assign to their own accumulator (metrics, initialMetrics); the
\* age-group and device chart reductions set new object literals; the
\* device tables push new object literals.
AssignedByRender(v, doc) ==
  CASE v = "weekly" -> WeeklyAssigned(doc)
    [] v = "region" -> RegionalAssigned(doc)
    [] v = "demographic" ->
         IF doc.campaigns = <<>> THEN {} ELSE {Fresh} \cup PerformanceAssigned(doc)
    [] v = "device" -> IF doc.campaigns = <<>> THEN {} ELSE {Fresh}

\* ---- C1 -----------------------------------------------------------------
\* Every row of the demographic and device performance tables.
PerformanceRows ==
  IF Dashboard("demographic")
  THEN Range(Shown.campaignPerformance.male) \cup Range(Shown.campaignPerformance.female)
  ELSE IF Dashboard("device")
  THEN Range(Shown.campaignPerformance.mobile)
       \cup Range(Shown.campaignPerformance.desktop)
       \cup Range(Shown.campaignPerformance.tablet)
  ELSE {}

\* C1: in every row of the demographic and device performance tables, zero
\* impressions give ctr = 0, zero clicks give conversionRate = 0, and neither
\* rate is NaN or Infinity.
C1_ZeroDenominatorGivesZero ==
  \A row \in PerformanceRows :
    /\ row.impressions = 0 => row.ctr = Zero
    /\ row.clicks = 0 => row.conversionRate = Zero
    /\ IsFinite(row.ctr)
    /\ IsFinite(row.conversionRate)

\* ---- C2 -----------------------------------------------------------------
\* The sum, over the entries of the (age group, gender) bucket, of the
\* rounded share of the campaign total read by Total.
BucketSum(doc, ageGroup, gender, Total(_)) ==
  LET all == Pairs(doc.campaigns, DemographicOf, 1) IN
  SumSeq([k \in 1..Len(all) |->
     IF all[k].entry.age_group = ageGroup /\ all[k].entry.gender = gender
     THEN MathRound(Num(Total(all[k].campaign) * all[k].entry.percentage_of_audience.n,
                        100 * all[k].entry.percentage_of_audience.d))
     ELSE 0])

ImpressionsOf(c) == c.impressions
ClicksOf(c) == c.clicks
ConversionsOf(c) == c.conversions

\* rate is a / b * 100 to two decimals: a multiple of 0.01 within 0.005 of it.
IsPercentOf(rate, a, b) ==
  /\ IsFinite(rate)
  /\ 100 % rate.d = 0
  /\ 200 * Abs(rate.n * b - 100 * a * rate.d) <= rate.d * b

DemographicRows ==
  Range(Shown.campaignPerformance.male) \cup Range(Shown.campaignPerformance.female)

\* The specification's scenario: two campaigns with clicks=100,
\* impressions=1000, conversions=10 and one entry {18-24, Male, 50} each.
ScenarioTotals == CHOOSE t \in Totals : t.impressions = 1000

ScenarioDocument ==
  Document("demographic_breakdown", 2,
           <<DemographicEntry("18-24", "Male", 50), DemographicEntry("18-24", "Male", 50)>>,
           [i \in 0..2 |-> i], [i \in 1..2 |-> ScenarioTotals], 0)

\* C2: each row of the male and female tables has the summed rounded
\* shares as its counts, ctr = clicks / impressions * 100 and conversionRate
\* = conversions / clicks * 100 of those sums to two decimals (where the
\* denominator is not zero), and the scenario gives the one row 1000 / 100 /
\* 10 / 10.00 / 10.00.
C2_RatesFromSummedCounts ==
  Dashboard("demographic") =>
    /\ \A row \in DemographicRows :
         LET impressions == BucketSum(Stored, row.ageGroup, row.gender, ImpressionsOf)
             clicks == BucketSum(Stored, row.ageGroup, row.gender, ClicksOf)
             conversions == BucketSum(Stored, row.ageGroup, row.gender, ConversionsOf)
         IN  /\ row.impressions = impressions
             /\ row.clicks = clicks
             /\ row.conversions = conversions
             /\ impressions > 0 => IsPercentOf(row.ctr, clicks, impressions)
             /\ clicks > 0 => IsPercentOf(row.conversionRate, conversions, clicks)
    /\ Stored = ScenarioDocument =>
         /\ Shown.campaignPerformance.female = <<>>
         /\ Shown.campaignPerformance.male =
              << [ageGroup |-> "18-24", gender |-> "Male", impressions |-> 1000,
                  clicks |-> 100, conversions |-> 10,
                  ctr |-> Int2Num(10), conversionRate |-> Int2Num(10)] >>

\* A bucket merged from a large and a tiny campaign at 50%: 500/50/5 (rates
\* 10 and 10) and 1/2/1 (rates 200 and 50) give 501/52/6, ctr 10.38 and
\* conversionRate 11.54, not the averages 105 and 30.
C2_Witness ==
  /\ Dashboard("demographic")
  /\ \E row \in DemographicRows :
       /\ row.impressions = 501
       /\ row.clicks = 52
       /\ row.conversions = 6
       /\ row.ctr = Num(1038, 100)
       /\ row.conversionRate = Num(1154, 100)

\* ---- C3 -----------------------------------------------------------------
\* The number of regional entries folded into the bucket of `bucket`.
Contributors(doc, bucket) ==
  LET all == Pairs(doc.campaigns, RegionalOf, 1) IN
  Cardinality({k \in 1..Len(all) : RegionKey(all[k].entry) = RegionKey(bucket)})

\* C3: a regional bucket merged from two or more entries has ctr =
\* clicks / impressions * 100 and conversion_rate = conversions / clicks * 100
\* of its summed counts (exactly, or to two decimals).
C3_RegionalRatesRecomputed ==
  Dashboard("region") =>
    \A bucket \in Range(Shown.aggregatedRegionalData) :
      Contributors(Stored, bucket) >= 2 =>
        /\ \/ bucket.ctr = Ratio100(bucket.clicks, bucket.impressions)
           \/ bucket.ctr = ToFixed2(Ratio100(bucket.clicks, bucket.impressions))
        /\ \/ bucket.conversion_rate = Ratio100(bucket.conversions, bucket.clicks)
           \/ bucket.conversion_rate =
                ToFixed2(Ratio100(bucket.conversions, bucket.clicks))

\* ---- C4 -----------------------------------------------------------------
\* The campaigns of the stored document with the entries of their
\* percentage-based breakdown (demographic or device view).
BreakdownOf(c) ==
  IF view = "demographic" THEN c.demographic_breakdown ELSE c.device_breakdown

ApportionedCampaigns ==
  IF view \in {"demographic", "device"} /\ rendered.screen = "dashboard"
  THEN Range(Stored.campaigns)
  ELSE {}

PercentageSum(c) ==
  SumNums([j \in 1..Len(BreakdownOf(c)) |-> BreakdownOf(c)[j].percentage_of_audience])

\* The sums of the values each reduction computes for the campaign's entries.
ClicksSum(c) ==
  SumSeq([j \in 1..Len(BreakdownOf(c)) |->
            ApportionRounded(c.clicks, Percentage(BreakdownOf(c)[j]))])

SpendSum(c) ==
  SumNums([j \in 1..Len(BreakdownOf(c)) |->
             Apportion(c.spend, Percentage(BreakdownOf(c)[j]))])

RevenueSum(c) ==
  SumNums([j \in 1..Len(BreakdownOf(c)) |->
             Apportion(c.revenue, Percentage(BreakdownOf(c)[j]))])

\* C4 as claimed: the apportioned clicks, spend and revenue of a campaign's
\* entries sum to the campaign's clicks, spend and revenue if and only if the
\* entries' percentages sum to 100.
C4_SharesSumIffHundred ==
  \A c \in ApportionedCampaigns :
    LET hundred == PercentageSum(c) = Int2Num(100) IN
    /\ hundred <=> ClicksSum(c) = c.clicks
    /\ hundred <=> SpendSum(c) = Int2Num(c.spend)
    /\ hundred <=> RevenueSum(c) = Int2Num(c.revenue)

\* C4 as amended: spend and revenue, which are not rounded, sum to the
\* campaign's totals if and only if the percentages sum to 100; clicks, which
\* are rounded entry by entry, then sum to within half a click per entry of
\* the campaign's clicks.
C4_MoneySumsIffHundred ==
  \A c \in ApportionedCampaigns :
    LET hundred == PercentageSum(c) = Int2Num(100) IN
    /\ hundred <=> SpendSum(c) = Int2Num(c.spend)
    /\ hundred <=> RevenueSum(c) = Int2Num(c.revenue)
    /\ hundred => 2 * Abs(ClicksSum(c) - c.clicks) <= Len(BreakdownOf(c))

\* A campaign split 50/50 whose rounded clicks (2 + 2) exceed its clicks (3)
\* while its spend and revenue shares sum to the totals.
C4_Witness ==
  \E c \in ApportionedCampaigns :
    /\ Len(BreakdownOf(c)) = 2
    /\ PercentageSum(c) = Int2Num(100)
    /\ c.clicks = 3
    /\ ClicksSum(c) = 4
    /\ SpendSum(c) = Int2Num(c.spend)

\* ---- C5 -----------------------------------------------------------------
\* The sequence s rearranged by the permutation p of its indices.
Permute(s, p) == [i \in 1..Len(s) |-> s[p[i]]]

\* Every document obtained by permuting the campaigns and, inside each
\* campaign, the weekly_performance entries.
WeeklyPermutations(doc) ==
  LET n == Len(doc.campaigns)
      EntryPerms(i) == Permutations(1..Len(doc.campaigns[i].weekly_performance))
  IN  { [doc EXCEPT !.campaigns =
           Permute([i \in 1..n |->
                      [doc.campaigns[i] EXCEPT
                         !.weekly_performance = Permute(@, q[i])]], p)]
        : p \in Permutations(1..n),
          q \in {f \in [1..n -> UNION {EntryPerms(i) : i \in 1..n}] :
                   \A i \in 1..n : f[i] \in EntryPerms(i)} }

Ascending(weeks) ==
  \A i, j \in 1..Len(weeks) :
    i < j => DateGetTime(weeks[i].week_start) <= DateGetTime(weeks[j].week_start)

\* C5: getAggregatedWeeklyData returns the same sequence for every
\* permutation of the campaigns and of their weekly entries, in ascending
\* order of the week_start date.
C5_WeeklyOrderIndependent ==
  Dashboard("weekly") =>
    /\ Ascending(Shown.aggregatedWeeklyData)
    /\ \A doc \in WeeklyPermutations(Stored) :
         getAggregatedWeeklyData(Some(doc)) = Shown.aggregatedWeeklyData

\* The part of C5 that holds: the output is in ascending order of date.
C5_WeeklyAscending ==
  Dashboard("weekly") => Ascending(Shown.aggregatedWeeklyData)

\* ---- C6 -----------------------------------------------------------------
\* The four bubble maps of the region dashboard.
BubbleMaps ==
  IF Dashboard("region")
  THEN {Shown.revenueMap, Shown.spendMap, Shown.impressionsMap, Shown.conversionsMap}
  ELSE {}

InTable(item) == item.region \in DOMAIN CITY_COORDINATES

\* C6: each map shows exactly the aggregated items whose region name is a
\* key of CITY_COORDINATES, in order, each at the table's latitude and
\* longitude; every other item is left out.
C6_OnlyTableRegionsMapped ==
  \A map \in BubbleMaps :
    LET expected == SelectSeq(Shown.aggregatedRegionalData, InTable) IN
    /\ Len(map.markers) = Len(expected)
    /\ \A i \in 1..Len(map.markers) :
         /\ i <= Len(expected)
         /\ map.markers[i].region = expected[i].region
         /\ map.markers[i].country = expected[i].country
         /\ map.markers[i].center =
              << Some(CITY_COORDINATES[expected[i].region].lat),
                 Some(CITY_COORDINATES[expected[i].region].lng) >>

\* ---- C7 -----------------------------------------------------------------
\* The least and the greatest value among the markers of a map.
LeastValue(map) ==
  CHOOSE v \in {m.value : m \in Range(map.markers)} :
    \A m \in Range(map.markers) : v <= m.value

GreatestValue(map) ==
  CHOOSE v \in {m.value : m \in Range(map.markers)} :
    \A m \in Range(map.markers) : v >= m.value

\* C7: in a map with markers, when max # min each radius r satisfies
\* r = minRadius + (maxRadius - minRadius) * (value - min) / (max - min)
\* (stated with the division multiplied out); when max = min each radius is
\* (minRadius + maxRadius) / 2 and each colour is #3B82F6.
C7_RadiusInterpolated ==
  \A map \in BubbleMaps :
    map.markers # <<>> =>
      LET min == LeastValue(map)
          max == GreatestValue(map)
      IN  \A m \in Range(map.markers) :
            IF max # min
            THEN /\ IsFinite(m.radius)
                 /\ m.radius.n * (max - min) =
                      m.radius.d * (map.minRadius * (max - min)
                                    + (map.maxRadius - map.minRadius) * (m.value - min))
            ELSE /\ IsFinite(m.radius)
                 /\ 2 * m.radius.n = m.radius.d * (map.minRadius + map.maxRadius)
                 /\ m.fillColor = HexColor("#3B82F6")

\* The revenue map has two markers of different values (radii 10 and 60)
\* while the conversions map has two markers of one value (radius 29, the
\* default colour).
C7_Witness ==
  /\ Dashboard("region")
  /\ Len(Shown.revenueMap.markers) = 2
  /\ Shown.revenueMap.markers[1].value < Shown.revenueMap.markers[2].value
  /\ Shown.revenueMap.markers[1].radius = Int2Num(10)
  /\ Shown.revenueMap.markers[2].radius = Int2Num(60)
  /\ Len(Shown.conversionsMap.markers) = 2
  /\ Shown.conversionsMap.markers[1].value = Shown.conversionsMap.markers[2].value
  /\ Shown.conversionsMap.markers[1].radius = Int2Num(29)
  /\ Shown.conversionsMap.markers[2].fillColor = HexColor("#3B82F6")

\* ---- C8 -----------------------------------------------------------------
\* C8: a campaign whose collection is absent is read as one with an empty
\* collection: once a document is stored the render pass completes (no
\* TypeError), and shows what the document shows with the collection empty.
WithEmptyCollections(doc) ==
  [doc EXCEPT !.campaigns =
     [i \in 1..Len(doc.campaigns) |-> [doc.campaigns[i] EXCEPT !.absent = {}]]]

C8_AbsentCollectionIsEmpty ==
  mounted /\ outcome = "success" =>
    rendered = RenderView(view, loading, error, Some(WithEmptyCollections(Stored)))

\* ---- C9 -----------------------------------------------------------------
\* A step of a view as C9 allows it.
C9_Step ==
  /\ loading /\ loading' => UNCHANGED <<error, data>>
  /\ loading /\ ~loading' =>
       \/ /\ outcome' = "success"
          /\ error' = error
          /\ ~IsNull(fetched')
          /\ IsNull(data') <=> fetched' = Some(JsonNull)
       \/ outcome' = "failure" /\ error' # error /\ ~IsNull(error') /\ data' = data
  /\ ~loading => UNCHANGED <<loading, error, data>>

C10_ScreenFollowsState ==
  mounted =>
    /\ loading => rendered.screen = "placeholder"
    /\ outcome = "failure" => rendered.screen = "error" /\ rendered.message = error
    /\ rendered.screen = "dashboard" => outcome = "success"

\* ---- C11 ----------------------------------------------------------------
\* The document the device view received and the one it stored.
DeviceFetched == view = "device" /\ outcome = "success"

\* The three values generated from the draws r of Math.random().
Generated(r) ==
  << NumAdd(Int2Num(25), NumMul(Int2Num(50), r[1])),
     NumAdd(Int2Num(10), NumMul(Int2Num(30), r[2])),
     NumAdd(Int2Num(2), NumMul(Int2Num(10), r[3])) >>

\* breakdown is Mobile, Desktop, Tablet, each percentage the generated value
\* divided by the sum of the three, times 100.
IsNormalised(breakdown, r) ==
  LET g == Generated(r)
      sum == SumNums(g)
  IN  /\ Len(breakdown) = 3
      /\ <<breakdown[1].device_type, breakdown[2].device_type, breakdown[3].device_type>>
           = <<"Mobile", "Desktop", "Tablet">>
      /\ \A k \in 1..3 :
           NumMul(breakdown[k].percentage_of_audience, sum) = NumMul(g[k], Int2Num(100))

\* C11: a campaign fetched without device_breakdown is stored with three
\* entries Mobile, Desktop, Tablet whose percentages are generated / sum *
\* 100, each strictly between 0 and 100, summing to 100; every other
\* campaign is stored as it was fetched.
C11_MissingBreakdownSynthesized ==
  DeviceFetched =>
    /\ Len(data[1].campaigns) = Len(fetched[1].campaigns)
    /\ \A i \in 1..Len(fetched[1].campaigns) :
         LET was == fetched[1].campaigns[i]
             is == data[1].campaigns[i]
         IN  IF "device_breakdown" \in was.absent
             THEN /\ \E r \in [1..3 -> Randoms] : IsNormalised(is.device_breakdown, r)
                  /\ \A k \in 1..Len(is.device_breakdown) :
                       /\ NumLess(Zero, is.device_breakdown[k].percentage_of_audience)
                       /\ NumLess(is.device_breakdown[k].percentage_of_audience, Int2Num(100))
                  /\ SumNums([k \in 1..Len(is.device_breakdown) |->
                                is.device_breakdown[k].percentage_of_audience]) = Int2Num(100)
                  /\ is = [was EXCEPT !.device_breakdown = is.device_breakdown,
                                      !.absent = {}]
             ELSE is = was

\* A document of two campaigns, the first with a breakdown of its own, the
\* second without one, stored with the generated values 50, 10 and 7
\* normalised to 5000/67, 1000/67 and 700/67.
C11_Witness ==
  /\ DeviceFetched
  /\ Len(fetched[1].campaigns) = 2
  /\ fetched[1].campaigns[1].device_breakdown # <<>>
  /\ data[1].campaigns[1] = fetched[1].campaigns[1]
  /\ "device_breakdown" \in fetched[1].campaigns[2].absent
  /\ data[1].campaigns[2].device_breakdown =
       << [device_type |-> "Mobile", percentage_of_audience |-> Num(5000, 67)],
          [device_type |-> "Desktop", percentage_of_audience |-> Num(1000, 67)],
          [device_type |-> "Tablet", percentage_of_audience |-> Num(700, 67)] >>

\* ---- C12 ----------------------------------------------------------------
\* rows is in strictly ascending order of age-group label.
StrictlyAscendingByAgeGroup(rows) ==
  \A i, j \in 1..Len(rows) :
    i < j => LocaleRank(rows[i].ageGroup) < LocaleRank(rows[j].ageGroup)

\* C12: the male table, the female table, the age-group spend series and
\* the age-group revenue series are each in strictly ascending order of
\* age-group label, hence hold at most one row per age group.
C12_AgeGroupsStrictlyAscending ==
  Dashboard("demographic") =>
    /\ StrictlyAscendingByAgeGroup(Shown.campaignPerformance.male)
    /\ StrictlyAscendingByAgeGroup(Shown.campaignPerformance.female)
    /\ StrictlyAscendingByAgeGroup(Shown.ageGroupData.spend)
    /\ StrictlyAscendingByAgeGroup(Shown.ageGroupData.revenue)
    /\ \A rows \in { Shown.campaignPerformance.male, Shown.campaignPerformance.female,
                     Shown.ageGroupData.spend, Shown.ageGroupData.revenue } :
         \A i, j \in 1..Len(rows) : rows[i].ageGroup = rows[j].ageGroup => i = j

\* A document whose first entry is 25-34 and whose second is 18-24, both
\* Male, shown as 18-24 then 25-34 in the male table and in both series.
C12_Witness ==
  /\ Dashboard("demographic")
  /\ LET all == Pairs(Stored.campaigns, DemographicOf, 1) IN
     /\ Len(all) = 2
     /\ all[1].entry.age_group = "25-34" /\ all[1].entry.gender = "Male"
     /\ all[2].entry.age_group = "18-24" /\ all[2].entry.gender = "Male"
  /\ Len(Shown.campaignPerformance.male) = 2
  /\ Shown.campaignPerformance.male[1].ageGroup = "18-24"
  /\ Shown.campaignPerformance.male[2].ageGroup = "25-34"
  /\ Len(Shown.ageGroupData.spend) = 2
  /\ Shown.ageGroupData.spend[1].ageGroup = "18-24"
  /\ Shown.ageGroupData.revenue[2].ageGroup = "25-34"

\* ---- C13 ----------------------------------------------------------------
\* The keys of a sequence in the order of their first appearance.
RECURSIVE FirstAppearances(_, _)
FirstAppearances(keys, seen) ==
  IF keys = <<>> THEN <<>>
  ELSE IF Head(keys) \in seen THEN FirstAppearances(Tail(keys), seen)
  ELSE <<Head(keys)>> \o FirstAppearances(Tail(keys), seen \cup {Head(keys)})

\* The regional keys and the device types of a document's entries, in
\* document order.
RegionalKeysOf(doc) ==
  LET all == Pairs(doc.campaigns, RegionalOf, 1) IN
  [k \in 1..Len(all) |-> all[k].entry.region \o <<"-">> \o all[k].entry.country]

DeviceTypesOf(doc) ==
  LET all == Pairs(doc.campaigns, DeviceOf, 1) IN
  [k \in 1..Len(all) |-> all[k].entry.device_type]

\* C13: the regional buckets, and the device chart's spend and revenue
\* series, are in the order in which each key first appears in the document
\* (campaigns in order, entries in order); a merge leaves the bucket where
\* it is.
C13_FirstAppearanceOrder ==
  /\ Dashboard("region") =>
       LET keys == FirstAppearances(RegionalKeysOf(Stored), {})
           out == Shown.aggregatedRegionalData
       IN  /\ Len(out) = Len(keys)
           /\ \A k \in 1..Len(out) :
                out[k].region \o <<"-">> \o out[k].country = keys[k]
  /\ Dashboard("device") =>
       LET keys == FirstAppearances(DeviceTypesOf(Stored), {})
           chart == Shown.deviceChartData
       IN  /\ [k \in 1..Len(chart.spend) |-> chart.spend[k].label] = keys
           /\ [k \in 1..Len(chart.revenue) |-> chart.revenue[k].label] = keys

\* Dubai-UAE, Doha-Qatar, then Dubai-UAE again in a second campaign: two
\* buckets, Dubai first with the sums of its two entries.
C13_Witness ==
  /\ Dashboard("region")
  /\ RegionalKeysOf(Stored) =
       << <<"Dubai", "-", "UAE">>, <<"Doha", "-", "Qatar">>, <<"Dubai", "-", "UAE">> >>
  /\ Len(Shown.aggregatedRegionalData) = 2
  /\ Shown.aggregatedRegionalData[1].region = <<"Dubai">>
  /\ Shown.aggregatedRegionalData[1].impressions = 300
  /\ Shown.aggregatedRegionalData[2].region = <<"Doha">>

\* ---- C14 ----------------------------------------------------------------
\* The bubble map of each metric of the region dashboard.
MetricMaps ==
  [revenue |-> Shown.revenueMap, spend |-> Shown.spendMap,
   impressions |-> Shown.impressionsMap, conversions |-> Shown.conversionsMap]

\* The metric summed over the document's entries of region name `name`.
RegionTotal(doc, name, metric) ==
  LET all == Pairs(doc.campaigns, RegionalOf, 1) IN
  SumSeq([k \in 1..Len(all) |->
            IF all[k].entry.region = name THEN all[k].entry[metric] ELSE 0])

\* C14: in each bubble map there is one point per region name, and its
\* value is the map's metric summed over all the document's entries of
\* that region name.
C14_OnePointPerRegionName ==
  Dashboard("region") =>
    \A metric \in DOMAIN MetricMaps :
      LET markers == MetricMaps[metric].markers IN
      \A i \in 1..Len(markers) :
        /\ \A j \in 1..Len(markers) : markers[j].region = markers[i].region => j = i
        /\ markers[i].value = RegionTotal(Stored, markers[i].region, metric)

\* ---- C15 ----------------------------------------------------------------
\* The fetch of the view is in flight: started and not yet settled.
InFlight == pc \in {"awaitClient", "awaitFetch", "awaitJson"}

\* C15: a view starts no fetch before its effect runs and exactly one from
\* then on (so at most one is in flight), and a fetch is only ever started
\* while nothing has succeeded or failed yet.
C15_OneFetchPerActivation ==
  /\ [](fetches = IF pc = "mounted" THEN 0 ELSE 1)
  /\ [](InFlight => fetches = 1 /\ outcome = "pending")
  /\ [][fetches' # fetches => outcome = "pending" /\ fetches' = 1]_vars

\* A view whose one fetch has failed and that has started no other.
C15_Witness ==
  /\ pc = "done"
  /\ outcome = "failure"
  /\ ~loading
  /\ fetches = 1

\* ---- C16 ----------------------------------------------------------------
\* The field summed over the document's weekly entries of one week_start.
WeekTotal(doc, weekStart, field) ==
  LET all == Pairs(doc.campaigns, WeeklyOf, 1) IN
  SumSeq([k \in 1..Len(all) |->
            IF all[k].entry.week_start = weekStart THEN all[k].entry[field] ELSE 0])

WeekStartsOf(doc) ==
  {p.entry.week_start : p \in Range(Pairs(doc.campaigns, WeeklyOf, 1))}

\* C16: the weekly buckets are one per distinct week_start of the
\* document, and each bucket's impressions, clicks, conversions, spend and
\* revenue are the sums of those fields over the entries of that week_start.
C16_OneBucketPerWeekStart ==
  Dashboard("weekly") =>
    LET out == Shown.aggregatedWeeklyData IN
    /\ {out[k].week_start : k \in 1..Len(out)} = WeekStartsOf(Stored)
    /\ Len(out) = Cardinality(WeekStartsOf(Stored))
    /\ \A k \in 1..Len(out) :
         \A field \in {"impressions", "clicks", "conversions", "spend", "revenue"} :
           out[k][field] = WeekTotal(Stored, out[k].week_start, field)

\* Three entries in two campaigns, the first and the third of the week of
\* 8 January: two buckets, that week's with 1000 + 1 impressions and
\* 100 + 3 clicks.
C16_Witness ==
  /\ Dashboard("weekly")
  /\ Len(Stored.campaigns) = 2
  /\ Len(Pairs(Stored.campaigns, WeeklyOf, 1)) = 3
  /\ Len(Shown.aggregatedWeeklyData) = 2
  /\ Shown.aggregatedWeeklyData[2].week_start = DateString(2024, 1, 8, "")
  /\ Shown.aggregatedWeeklyData[2].impressions = 1001
  /\ Shown.aggregatedWeeklyData[2].clicks = 103
  /\ Shown.aggregatedWeeklyData[2].revenue = 402

\* ---- C17 ----------------------------------------------------------------
\* total * percentage / 100 as an exact fraction, and rounded to the nearest
\* whole number (halves upwards).
ExactShare(total, percentage) == Num(total * percentage.n, 100 * percentage.d)

RoundedShare(total, percentage) ==
  (2 * total * percentage.n + 100 * percentage.d) \div (200 * percentage.d)

\* The sums over the entries of the breakdown that satisfy Contributes.
RoundedSum(all, Contributes(_), field) ==
  SumSeq([k \in 1..Len(all) |->
            IF Contributes(all[k].entry)
            THEN RoundedShare(all[k].campaign[field], all[k].entry.percentage_of_audience)
            ELSE 0])

ExactSum(all, Contributes(_), field) ==
  SumNums([k \in 1..Len(all) |->
             IF Contributes(all[k].entry)
             THEN ExactShare(all[k].campaign[field], all[k].entry.percentage_of_audience)
             ELSE Zero])

IsMale(e) == e.gender = "Male"
IsFemale(e) == e.gender = "Female"
IsMobile(e) == e.device_type = "Mobile"
IsDesktop(e) == e.device_type = "Desktop"
IsTablet(e) == e.device_type = "Tablet"

\* C17: every accumulated clicks, impressions or conversions value is the
\* sum of the contributing entries' shares each rounded to a whole number,
\* and every accumulated spend or revenue value is the sum of the shares
\* with no rounding.
C17_CountsRoundedMoneyExact ==
  /\ Dashboard("demographic") =>
       LET all == Pairs(Stored.campaigns, DemographicOf, 1)
           m == Shown.demographicMetrics
       IN  /\ m.maleClicks = RoundedSum(all, IsMale, "clicks")
           /\ m.maleSpend = ExactSum(all, IsMale, "spend")
           /\ m.maleRevenue = ExactSum(all, IsMale, "revenue")
           /\ m.femaleClicks = RoundedSum(all, IsFemale, "clicks")
           /\ m.femaleSpend = ExactSum(all, IsFemale, "spend")
           /\ m.femaleRevenue = ExactSum(all, IsFemale, "revenue")
           /\ \A row \in DemographicRows :
                LET InBucket(e) == e.age_group = row.ageGroup /\ e.gender = row.gender IN
                /\ row.impressions = RoundedSum(all, InBucket, "impressions")
                /\ row.clicks = RoundedSum(all, InBucket, "clicks")
                /\ row.conversions = RoundedSum(all, InBucket, "conversions")
  /\ Dashboard("device") =>
       LET all == Pairs(Stored.campaigns, DeviceOf, 1)
           m == Shown.deviceMetrics
       IN  /\ m.mobileClicks = RoundedSum(all, IsMobile, "clicks")
           /\ m.mobileSpend = ExactSum(all, IsMobile, "spend")
           /\ m.mobileRevenue = ExactSum(all, IsMobile, "revenue")
           /\ m.desktopClicks = RoundedSum(all, IsDesktop, "clicks")
           /\ m.desktopSpend = ExactSum(all, IsDesktop, "spend")
           /\ m.desktopRevenue = ExactSum(all, IsDesktop, "revenue")
           /\ m.tabletClicks = RoundedSum(all, IsTablet, "clicks")
           /\ m.tabletSpend = ExactSum(all, IsTablet, "spend")
           /\ m.tabletRevenue = ExactSum(all, IsTablet, "revenue")

\* Two campaigns of 3 clicks and spend 1 with one Male entry of 50% each:
\* the clicks are 2 + 2 = 4 (each share 1.5 rounded before adding, not
\* round(3) = 3) and the spend is 1/2 + 1/2 = 1, neither share rounded.
C17_Witness ==
  /\ Dashboard("demographic")
  /\ Len(Stored.campaigns) = 2
  /\ \A i \in 1..2 :
       /\ Stored.campaigns[i].clicks = 3
       /\ Stored.campaigns[i].spend = 1
       /\ Len(Stored.campaigns[i].demographic_breakdown) = 1
       /\ Stored.campaigns[i].demographic_breakdown[1].gender = "Male"
       /\ Stored.campaigns[i].demographic_breakdown[1].percentage_of_audience = Int2Num(50)
  /\ Shown.demographicMetrics.maleClicks = 4
  /\ Shown.demographicMetrics.maleSpend = Int2Num(1)

\* ---- C18 ----------------------------------------------------------------
\* A step of a view as C18 describes it.
C18_Step ==
  /\ mounted /\ ~mounted' => UNCHANGED <<pc, loading, error, data, outcome>>
  /\ ~mounted /\ InFlight /\ ~InFlight' =>
       /\ lateSetters'
       /\ ~loading'
       /\ \/ outcome' = "success" /\ (IsNull(data') <=> fetched' = Some(JsonNull))
          \/ outcome' = "failure" /\ ~IsNull(error')

\* C18: removing a view leaves its pending fetch and its state alone, and
\* when a fetch settles after the view was removed the setters are still
\* called: the document or the message is stored and loading is set to
\* false.
C18_NoCancellationOnTeardown ==
  /\ [](pc = "done" => ~loading /\ outcome # "pending")
  /\ [](lateSetters => ~mounted /\ pc = "done")
  /\ [][C18_Step]_vars

\* Mount, fetch started, unmount, fetch fulfilled: the document was stored
\* and loading cleared after the view was removed.
C18_Witness ==
  /\ ~mounted
  /\ lateSetters
  /\ outcome = "success"
  /\ ~IsNull(data)
  /\ ~loading

\* ---- C19 ----------------------------------------------------------------
\* C19: when the promises of the fetch settle, whether fulfilled or
\* rejected, with a response that is not ok or with a body that fails to
\* parse, loading becomes false and stays false; no settled fetch leaves the
\* view loading.
C19_SettledFetchClearsLoading ==
  /\ InFlight ~> ~loading
  /\ <>[](~loading)

\* The device view after a response that was not ok: the message is stored
\* and loading is false.
C19_Witness ==
  /\ view = "device"
  /\ pc = "done"
  /\ error = Some("Failed to fetch data")
  /\ ~loading

\* ---- C20 ----------------------------------------------------------------
\* C20: in a map whose values differ, a point of the minimum value is
\* coloured rgb(59, 130, 246), a point of the maximum value is coloured red
\* (its red component greater than its green and its blue), and every
\* colour component is a whole number in 0..255.
C20_BlueToRedGradient ==
  \A map \in BubbleMaps :
    (map.markers # <<>> /\ GreatestValue(map) # LeastValue(map)) =>
      \A m \in Range(map.markers) :
        /\ Len(m.fillColor.rgb) = 3
        /\ \A k \in 1..3 : m.fillColor.rgb[k] \in 0..255
        /\ m.value = LeastValue(map) => m.fillColor.rgb = <<59, 130, 246>>
        /\ m.value = GreatestValue(map) =>
             /\ m.fillColor.rgb[1] > m.fillColor.rgb[2]
             /\ m.fillColor.rgb[1] > m.fillColor.rgb[3]

\* ---- C21 ----------------------------------------------------------------
\* The (region, country) pairs of the document's regional entries.
RegionCountryPairs(doc) ==
  {<<p.entry.region, p.entry.country>> : p \in Range(Pairs(doc.campaigns, RegionalOf, 1))}

\* The impressions summed over the entries of one region and country.
PairImpressions(doc, region, country) ==
  LET all == Pairs(doc.campaigns, RegionalOf, 1) IN
  SumSeq([k \in 1..Len(all) |->
            IF all[k].entry.region = region /\ all[k].entry.country = country
            THEN all[k].entry.impressions ELSE 0])

\* C21: two regional entries share a bucket if and only if they have the
\* same region and the same country: there is one bucket per (region,
\* country) pair of the document, holding the impressions of exactly the
\* entries of that pair.
C21_BucketIffSameRegionAndCountry ==
  Dashboard("region") =>
    LET out == Shown.aggregatedRegionalData IN
    /\ Len(out) = Cardinality(RegionCountryPairs(Stored))
    /\ \A k \in 1..Len(out) :
         out[k].impressions = PairImpressions(Stored, out[k].region, out[k].country)

\* ---- C22 ----------------------------------------------------------------
\* The card totals of processDeviceMetrics for a device type.
CardTotals(m, type) ==
  CASE type = "Mobile" -> [spend |-> m.mobileSpend, revenue |-> m.mobileRevenue]
    [] type = "Desktop" -> [spend |-> m.desktopSpend, revenue |-> m.desktopRevenue]
    [] type = "Tablet" -> [spend |-> m.tabletSpend, revenue |-> m.tabletRevenue]

\* The values of the buckets of a chart series that carry the label.
Labelled(series, label) ==
  SelectSeq(series, LAMBDA bucket : bucket.label = label)

\* C22: for each of Mobile, Desktop and Tablet that occurs in the document
\* the spend and the revenue series of the chart hold one bucket of that
\* label, whose value is the card total of the device type.
C22_CardsAgreeWithChart ==
  Dashboard("device") =>
    \A type \in {"Mobile", "Desktop", "Tablet"} \cap Range(DeviceTypesOf(Stored)) :
      LET spend == Labelled(Shown.deviceChartData.spend, type)
          revenue == Labelled(Shown.deviceChartData.revenue, type)
          cards == CardTotals(Shown.deviceMetrics, type)
      IN  /\ Len(spend) = 1
          /\ Len(revenue) = 1
          /\ spend[1].value = cards.spend
          /\ revenue[1].value = cards.revenue

\* Mobile at 50% in one campaign and at 40% in another, both of spend 200
\* and revenue 400: the card and the chart both show 180 and 360.
C22_Witness ==
  /\ Dashboard("device")
  /\ Len(Stored.campaigns) = 2
  /\ DeviceTypesOf(Stored) = <<"Mobile", "Mobile">>
  /\ Shown.deviceMetrics.mobileSpend = Int2Num(180)
  /\ Shown.deviceMetrics.mobileRevenue = Int2Num(360)
  /\ Shown.deviceChartData.spend = <<[label |-> "Mobile", value |-> Int2Num(180)]>>
  /\ Shown.deviceChartData.revenue = <<[label |-> "Mobile", value |-> Int2Num(360)]>>

\* ---- C23 ----------------------------------------------------------------
\* C23: the spend summed over the age-group buckets is maleSpend +
\* femaleSpend, and the revenue summed over them is maleRevenue +
\* femaleRevenue.
C23_AgeGroupsAgreeWithGenderTotals ==
  Dashboard("demographic") =>
    LET groups == Shown.ageGroupData
        m == Shown.demographicMetrics
    IN  /\ SumNums([k \in 1..Len(groups.spend) |-> groups.spend[k].spend])
             = NumAdd(m.maleSpend, m.femaleSpend)
        /\ SumNums([k \in 1..Len(groups.revenue) |-> groups.revenue[k].revenue])
             = NumAdd(m.maleRevenue, m.femaleRevenue)

\* ---- C24 ----------------------------------------------------------------
\* C24: a render pass assigns to no object of the stored document (only
\* to objects the reductions created), so the stored document keeps its
\* field values and one more pass over it returns what is on screen.
C24_RenderLeavesDocumentUnchanged ==
  (mounted /\ outcome = "success" /\ rendered.screen # "crash") =>
    /\ AssignedByRender(view, Stored) \subseteq {Fresh}
    /\ rendered = RenderView(view, loading, error, data)

\* Two campaigns with one Male 18-24 entry each: the second entry is merged
\* by assignment into the object made for the first, which is not an entry
\* of the document.
C24_Witness ==
  /\ Dashboard("demographic")
  /\ Len(Stored.campaigns) = 2
  /\ \A i \in 1..2 :
       /\ Len(Stored.campaigns[i].demographic_breakdown) = 1
       /\ Stored.campaigns[i].demographic_breakdown[1].gender = "Male"
       /\ Stored.campaigns[i].demographic_breakdown[1].age_group = "18-24"
  /\ Len(Shown.campaignPerformance.male) = 1
  /\ PerformanceAssigned(Stored) = {Fresh}

\* ---- C25 ----------------------------------------------------------------
\* C25: whenever loading is false, either an error message is stored or a
\* document is stored, and never both.
C25_ErrorXorDocument ==
  ~loading => (~IsNull(error) /\ IsNull(data)) \/ (IsNull(error) /\ ~IsNull(data))

====
